---- MODULE Spec2Model ----
(***************************************************************************)
(* Model of the ardurain-backend classification pipeline:                  *)
(*   services/wikidata_service.py  infer_primary_and_traits                *)
(*   services/moisture_service.py  compute_moisture, compute_climate       *)
(*   routers/identify.py           identify_plant_endpoint (the caller)    *)
(*   routers/telemetry.py          device_config_set, device_config_get    *)
(* Text is kept as TLA+ strings; keyword matching is real substring        *)
(* search, lower() and strip() are computed character by character.        *)
(***************************************************************************)
EXTENDS Integers, Sequences, FiniteSets, TLC

VARIABLES pc, labels, wiki_hint, combined, traits, reasoning, scores,
          explicit_houseplant, ri, primary, moisture, climate,
          band_dim, band_raw, band_out,
          device_config, calls, now

\* the band repair of the range functions, taken alone
band_vars == <<band_dim, band_raw, band_out>>

\* routers/telemetry.py: _DEVICE_CONFIG, the device_config_set calls, the clock
config_vars == <<device_config, calls, now>>

vars == <<pc, labels, wiki_hint, combined, traits, reasoning, scores,
          explicit_houseplant, ri, primary, moisture, climate,
          band_dim, band_raw, band_out,
          device_config, calls, now>>

(***************************************************************************)
(* Bounds of the model                                                     *)
(***************************************************************************)
\* number of text fragments joined into one wiki hint
\* how far below and above the domain bounds the raw bands are drawn
\* how many device_config_set calls are made, in flight together or in turn
MaxCalls == 2

Margin == 3

MaxFrags == 2
\* length of the trait lists handed directly to the range functions
MaxTraits == 2

(***************************************************************************)
(* Python built-ins used by the code                                       *)
(***************************************************************************)
\* Python:  w in text   (substring test on str)
StrContains(text, w) ==
    \E i \in 1..(Len(text) - Len(w) + 1) : SubSeq(text, i, i + Len(w) - 1) = w

UpperToLower ==
    "A" :> "a" @@ "B" :> "b" @@ "C" :> "c" @@ "D" :> "d" @@ "E" :> "e" @@
    "F" :> "f" @@ "G" :> "g" @@ "H" :> "h" @@ "I" :> "i" @@ "J" :> "j" @@
    "K" :> "k" @@ "L" :> "l" @@ "M" :> "m" @@ "N" :> "n" @@ "O" :> "o" @@
    "P" :> "p" @@ "Q" :> "q" @@ "R" :> "r" @@ "S" :> "s" @@ "T" :> "t" @@
    "U" :> "u" @@ "V" :> "v" @@ "W" :> "w" @@ "X" :> "x" @@ "Y" :> "y" @@
    "Z" :> "z"

\* Python:  str.lower()
RECURSIVE StrLower(_)
StrLower(s) ==
    IF Len(s) = 0 THEN ""
    ELSE IF Len(s) = 1
    THEN (IF s \in DOMAIN UpperToLower THEN UpperToLower[s] ELSE s)
    ELSE LET h == Len(s) \div 2
         IN  StrLower(SubSeq(s, 1, h)) \o StrLower(SubSeq(s, h + 1, Len(s)))

\* Python:  str.strip()   (the inputs hold no whitespace but the blank)
RECURSIVE StrStrip(_)
StrStrip(s) ==
    IF Len(s) = 0 THEN ""
    ELSE IF SubSeq(s, 1, 1) = " " THEN StrStrip(SubSeq(s, 2, Len(s)))
    ELSE IF SubSeq(s, Len(s), Len(s)) = " " THEN StrStrip(SubSeq(s, 1, Len(s) - 1))
    ELSE s

\* Python:  " ".join(items)
RECURSIVE StrJoin(_)
StrJoin(items) ==
    IF Len(items) = 0 THEN ""
    ELSE IF Len(items) = 1 THEN items[1]
    ELSE items[1] \o " " \o StrJoin(Tail(items))

\* Python:  x in list
InList(x, list) == \E i \in 1..Len(list) : list[i] = x

\* Python dict, insertion ordered: a sequence of items [k |-> key, v |-> value]
DictKeys(d) == [i \in 1..Len(d) |-> d[i].k]

DictHas(d, key) == \E i \in 1..Len(d) : d[i].k = key

\* Python:  d.get(key, default)
DictGet(d, key, default) ==
    IF DictHas(d, key)
    THEN d[CHOOSE i \in 1..Len(d) : d[i].k = key].v
    ELSE default

\* Python:  d[key] = value   (an existing key keeps its place, a new one goes last)
DictSet(d, key, value) ==
    IF DictHas(d, key)
    THEN [i \in 1..Len(d) |-> IF d[i].k = key THEN [k |-> key, v |-> value] ELSE d[i]]
    ELSE Append(d, [k |-> key, v |-> value])

\* mutant: the last maximal item wins
DictArgMax_Last(d) ==
    LET best == CHOOSE i \in 1..Len(d) :
                    /\ \A j \in 1..Len(d) : d[j].v <= d[i].v
                    /\ \A j \in (i + 1)..Len(d) : d[j].v < d[i].v
    IN  d[best].k

\* Python:  max(d.items(), key=lambda kv: kv[1])[0]   (the first maximal item)
DictArgMax(d) ==
    LET best == CHOOSE i \in 1..Len(d) :
                    /\ \A j \in 1..Len(d) : d[j].v <= d[i].v
                    /\ \A j \in 1..(i - 1) : d[j].v < d[i].v
    IN  d[best].k

\* Python:  round(s / 2) for an integer s: ties go to the even neighbour
RoundHalfEven(s) ==
    LET q == s \div 2
    IN  IF s % 2 = 0 THEN q
        ELSE IF q % 2 = 0 THEN q ELSE q + 1

BoundedSeq(S, n) == UNION {[1..k -> S] : k \in 0..n}

(***************************************************************************)
(* services/moisture_service.py: helpers and tables                        *)
(***************************************************************************)
\* mutant: the upper bound is not applied
clamp_int_NoUpper(x, lo, hi) == IF lo < x THEN x ELSE lo

clamp_int(x, lo, hi) ==
    LET m == IF hi < x THEN hi ELSE x      \* min(hi, x)
    IN  IF lo < m THEN m ELSE lo           \* max(lo, ...): lo unless m is larger

\* int(round((a + b) / 2))
midpoint(a, b) == RoundHalfEven(a + b)

It(key, value) == [k |-> key, v |-> value]

PRIMARY_MOISTURE_BASE == <<
    It("desert", <<10, 25>>),
    It("mediterranean", <<20, 40>>),
    It("temperate_cold", <<25, 45>>),
    It("temperate", <<25, 45>>),
    It("grassland", <<25, 45>>),
    It("savanna", <<25, 45>>),
    It("houseplant", <<35, 55>>),
    It("subtropical", <<40, 65>>),
    It("tropical", <<45, 70>>),
    It("rainforest", <<60, 85>>),
    It("wetland", <<75, 92>>),
    It("bog", <<80, 95>>),
    It("aquatic", <<85, 98>>),
    It("coastal", <<35, 60>>),
    It("alpine", <<30, 55>>),
    It("arctic", <<25, 50>>),
    It("fern", <<60, 85>>),
    It("boreal", <<25, 45>>) >>

\* mutant: another category is the designated default
DEFAULT_PRIMARY_Temperate == "temperate"

DEFAULT_PRIMARY == "houseplant"

\* PRIMARY_MOISTURE_BASE[DEFAULT_PRIMARY]
DEFAULT_RANGE == DictGet(PRIMARY_MOISTURE_BASE, DEFAULT_PRIMARY, <<>>)

\* mutant: the deltas are taken as magnitudes, their sign is lost
MMod_Unsigned(mn, mx, tg) ==
    [min    |-> IF mn < 0 THEN -mn ELSE mn,
     max    |-> IF mx < 0 THEN -mx ELSE mx,
     target |-> IF tg < 0 THEN -tg ELSE tg]

MMod(mn, mx, tg) == [min |-> mn, max |-> mx, target |-> tg]

TRAIT_MODIFIERS == <<
    It("cactus", MMod(-5, -5, -6)),
    It("succulent", MMod(-4, -4, -5)),
    It("xerophyte", MMod(-4, -4, -5)),
    It("drought_tolerant", MMod(-3, -3, -3)),
    It("hydrophyte", MMod(6, 6, 6)),
    It("wetland_plant", MMod(5, 5, 5)),
    It("bog_plant", MMod(5, 6, 6)),
    It("epiphyte", MMod(2, 2, 2)),
    It("orchid", MMod(2, 2, 2)),
    It("carnivorous", MMod(6, 6, 6)) >>

PRIMARY_TEMP_BASE_C == <<
    It("arctic", <<-5, 12>>),
    It("alpine", <<0, 18>>),
    It("temperate_cold", <<5, 20>>),
    It("boreal", <<5, 20>>),
    It("temperate", <<10, 28>>),
    It("mediterranean", <<12, 30>>),
    It("grassland", <<10, 30>>),
    It("savanna", <<16, 35>>),
    It("desert", <<18, 40>>),
    It("houseplant", <<18, 28>>),
    It("subtropical", <<18, 32>>),
    It("tropical", <<20, 34>>),
    It("rainforest", <<22, 35>>),
    It("wetland", <<15, 30>>),
    It("bog", <<10, 25>>),
    It("aquatic", <<15, 30>>),
    It("coastal", <<12, 28>>),
    It("fern", <<18, 28>>) >>

\* mutant: the humidity table lacks the coastal row
PRIMARY_HUM_BASE_NoCoastal == <<
    It("arctic", <<20, 50>>),
    It("alpine", <<25, 55>>),
    It("temperate_cold", <<30, 60>>),
    It("boreal", <<30, 60>>),
    It("temperate", <<35, 65>>),
    It("mediterranean", <<30, 55>>),
    It("grassland", <<30, 60>>),
    It("savanna", <<25, 55>>),
    It("desert", <<15, 40>>),
    It("houseplant", <<40, 70>>),
    It("subtropical", <<45, 75>>),
    It("tropical", <<55, 85>>),
    It("rainforest", <<70, 95>>),
    It("wetland", <<60, 90>>),
    It("bog", <<70, 95>>),
    It("aquatic", <<60, 90>>),
    It("fern", <<60, 90>>) >>

PRIMARY_HUM_BASE == <<
    It("arctic", <<20, 50>>),
    It("alpine", <<25, 55>>),
    It("temperate_cold", <<30, 60>>),
    It("boreal", <<30, 60>>),
    It("temperate", <<35, 65>>),
    It("mediterranean", <<30, 55>>),
    It("grassland", <<30, 60>>),
    It("savanna", <<25, 55>>),
    It("desert", <<15, 40>>),
    It("houseplant", <<40, 70>>),
    It("subtropical", <<45, 75>>),
    It("tropical", <<55, 85>>),
    It("rainforest", <<70, 95>>),
    It("wetland", <<60, 90>>),
    It("bog", <<70, 95>>),
    It("aquatic", <<60, 90>>),
    It("coastal", <<45, 80>>),
    It("fern", <<60, 90>>) >>

CMod(a, b, c, d) == [tmin |-> a, tmax |-> b, hmin |-> c, hmax |-> d]

CLIMATE_TRAIT_MODS == <<
    It("cactus", CMod(2, 4, -10, -10)),
    It("succulent", CMod(1, 3, -8, -8)),
    It("xerophyte", CMod(1, 3, -8, -8)),
    It("drought_tolerant", CMod(0, 2, -5, -5)),
    It("wetland_plant", CMod(0, 0, 5, 8)),
    It("bog_plant", CMod(0, 0, 8, 10)),
    It("hydrophyte", CMod(0, 0, 8, 10)),
    It("epiphyte", CMod(0, 0, 8, 10)),
    It("orchid", CMod(0, 0, 8, 10)),
    It("carnivorous", CMod(0, 0, 10, 10)),
    It("coastal", CMod(0, 0, 3, 5)),
    It("arctic", CMod(-2, -2, 0, 0)),
    It("alpine", CMod(-1, -1, 0, 0)),
    It("cold_hardy", CMod(-1, -1, 0, 0)),
    It("boreal", CMod(-1, -1, 0, 0)) >>

\* domain bounds of the three dimensions (the literals of the clamp calls)
MOIST_LO == 0
MOIST_HI == 100
TEMP_LO == -30
TEMP_HI == 60
HUM_LO == 0
HUM_HI == 100

\* the loop "for t in traits" of compute_moisture, on <<mn, mx, tg, applied>>
RECURSIVE MoistureLoop(_, _)
MoistureLoop(acc, ts) ==
    IF Len(ts) = 0 THEN acc
    ELSE LET t == Head(ts)
         IN  IF ~DictHas(TRAIT_MODIFIERS, t)
             THEN MoistureLoop(acc, Tail(ts))
             ELSE LET mod == DictGet(TRAIT_MODIFIERS, t, <<>>)
                  IN  MoistureLoop(
                        << acc[1] + mod.min, acc[2] + mod.max, acc[3] + mod.target,
                           Append(acc[4], t \o "(" \o ToString(mod.min) \o ","
                                            \o ToString(mod.max) \o ","
                                            \o ToString(mod.target) \o ")") >>,
                        Tail(ts))

\* compute_moisture: clamp mn, clamp mx, then "if mx < mn: mx = mn"
MoistureBand(mn0, mx0) ==
    LET mn == clamp_int(mn0, MOIST_LO, MOIST_HI)
        mx == clamp_int(mx0, MOIST_LO, MOIST_HI)
    IN  << mn, IF mx < mn THEN mn ELSE mx >>

\* mutant: the target deltas of the traits are dropped
compute_moisture_NoTargetDelta(prim, ts) ==
    LET base   == DictGet(PRIMARY_MOISTURE_BASE, prim, DEFAULT_RANGE)
        target == midpoint(base[1], base[2])
        acc    == MoistureLoop(<<base[1], base[2], target, <<>> >>, ts)
        band   == MoistureBand(acc[1], acc[2])
        tg     == clamp_int(target, band[1], band[2])
    IN  [min |-> band[1], max |-> band[2], target |-> tg, applied |-> acc[4]]

compute_moisture(prim, ts) ==
    LET base   == DictGet(PRIMARY_MOISTURE_BASE, prim, DEFAULT_RANGE)
        target == midpoint(base[1], base[2])
        acc    == MoistureLoop(<<base[1], base[2], target, <<>> >>, ts)
        band   == MoistureBand(acc[1], acc[2])
        tg     == clamp_int(acc[3], band[1], band[2])
    IN  [min |-> band[1], max |-> band[2], target |-> tg, applied |-> acc[4]]

\* the loop "for t in traits" of compute_climate, on <<tmin, tmax, hmin, hmax, applied>>
RECURSIVE ClimateLoop(_, _)
ClimateLoop(acc, ts) ==
    IF Len(ts) = 0 THEN acc
    ELSE LET t == Head(ts)
         IN  IF ~DictHas(CLIMATE_TRAIT_MODS, t)
             THEN ClimateLoop(acc, Tail(ts))
             ELSE LET mod == DictGet(CLIMATE_TRAIT_MODS, t, <<>>)
                  IN  ClimateLoop(
                        << acc[1] + mod.tmin, acc[2] + mod.tmax,
                           acc[3] + mod.hmin, acc[4] + mod.hmax,
                           Append(acc[5], t \o "(t" \o ToString(mod.tmin) \o ","
                                            \o ToString(mod.tmax) \o " h"
                                            \o ToString(mod.hmin) \o ","
                                            \o ToString(mod.hmax) \o ")") >>,
                        Tail(ts))

\* mutant: the band is clamped and an inverted band is left as it is
ClimateBand_NoRepair(mn0, mx0, lo, hi) ==
    << clamp_int(mn0, lo, hi), clamp_int(mx0, lo, hi) >>

\* compute_climate: "if tmax < tmin: tmax = tmin", then clamp both
\* (the same statements with hmin, hmax and the humidity bounds)
ClimateBand(mn0, mx0, lo, hi) ==
    LET mx1 == IF mx0 < mn0 THEN mn0 ELSE mx0
    IN  << clamp_int(mn0, lo, hi), clamp_int(mx1, lo, hi) >>

compute_climate(prim, ts) ==
    LET tbase == DictGet(PRIMARY_TEMP_BASE_C, prim,
                         DictGet(PRIMARY_TEMP_BASE_C, "houseplant", <<>>))
        hbase == DictGet(PRIMARY_HUM_BASE, prim,
                         DictGet(PRIMARY_HUM_BASE, "houseplant", <<>>))
        acc   == ClimateLoop(<<tbase[1], tbase[2], hbase[1], hbase[2], <<>> >>, ts)
        tband == ClimateBand(acc[1], acc[2], TEMP_LO, TEMP_HI)
        hband == ClimateBand(acc[3], acc[4], HUM_LO, HUM_HI)
    IN  [tmin |-> tband[1], tmax |-> tband[2],
         ttarget |-> midpoint(tband[1], tband[2]),
         hmin |-> hband[1], hmax |-> hband[2],
         htarget |-> midpoint(hband[1], hband[2]),
         applied |-> acc[5]]

(***************************************************************************)
(* services/wikidata_service.py: helpers and rule sequences                *)
(***************************************************************************)
\* mutant: a keyword matches only as a whole word, not inside a longer word
LETTERS == { "a", "b", "c", "d", "e", "f", "g", "h", "i", "j", "k", "l", "m",
             "n", "o", "p", "q", "r", "s", "t", "u", "v", "w", "x", "y", "z" }

_has_any_WholeWord(text, words) ==
    \E k \in 1..Len(words) :
        \E i \in 1..(Len(text) - Len(words[k]) + 1) :
            LET j == i + Len(words[k]) - 1
            IN  /\ SubSeq(text, i, j) = words[k]
                /\ (i = 1 \/ SubSeq(text, i - 1, i - 1) \notin LETTERS)
                /\ (j = Len(text) \/ SubSeq(text, j + 1, j + 1) \notin LETTERS)

\* mutant: whole-text match instead of substring match
_has_any_Exact(text, words) == \E i \in 1..Len(words) : text = words[i]

\* any(w in text for w in words)
_has_any(text, words) == \E i \in 1..Len(words) : StrContains(text, words[i])

\* works on the pair <<traits, reasoning>>
\* mutant: a new trait is put in front of the list
_add_trait_Front(tr, name, why) ==
    IF ~InList(name, tr[1])
    THEN << <<name>> \o tr[1],
            Append(tr[2], "trait: " \o name \o " (" \o why \o ")") >>
    ELSE tr

_add_trait(tr, name, why) ==
    IF ~InList(name, tr[1])
    THEN << Append(tr[1], name),
            Append(tr[2], "trait: " \o name \o " (" \o why \o ")") >>
    ELSE tr

\* works on the pair <<scores, reasoning>>
\* mutant: the delta is added twice
_add_score_Twice(sr, key, delta, why) ==
    << DictSet(sr[1], key, DictGet(sr[1], key, 0) + delta + delta),
       Append(sr[2], "primary +" \o ToString(delta) \o " " \o key
                     \o " (" \o why \o ")") >>

_add_score(sr, key, delta, why) ==
    << DictSet(sr[1], key, DictGet(sr[1], key, 0) + delta),
       Append(sr[2], "primary +" \o ToString(delta) \o " " \o key
                     \o " (" \o why \o ")") >>

\* mutant: only the word houseplant counts as explicit-indoor wording
EXPLICIT_INDOOR_WORDS_Short ==
    << "houseplant", "cultivated as a houseplant", "commonly kept as a houseplant" >>

EXPLICIT_INDOOR_WORDS ==
    << "houseplant", "indoor plant", "potted plant", "grown indoors",
       "cultivated as a houseplant", "commonly kept as a houseplant" >>

_is_explicit_indoor(text) == _has_any(text, EXPLICIT_INDOOR_WORDS)

WILD_CONTEXT_WORDS ==
    << "native to", "native of", "endemic to", "found in", "occurs in",
       "distributed in", "distribution", "habitat", "wildflower", "grows in",
       "naturalised", "naturalized", "flora of", "plants of", "vegetation of" >>

_is_wild_context(text) == _has_any(text, WILD_CONTEXT_WORDS)

\* the trait statements of infer_primary_and_traits, in program order
TRule(words, name) == [words |-> words, name |-> name]

TRAIT_RULES == <<
    TRule(<<"cactus", "cactaceae">>, "cactus"),
    TRule(<<"succulent", "crassulaceae", "aloe", "echeveria", "sedum">>, "succulent"),
    TRule(<<"xerophyte", "xerophytic">>, "xerophyte"),
    TRule(<<"drought tolerant", "drought-tolerant", "arid", "semi-arid", "semiarid">>,
          "drought_tolerant"),
    TRule(<<"hydrophyte", "water plant", "aquatic plant">>, "hydrophyte"),
    TRule(<<"wetland", "marsh", "swamp", "fen", "riparian">>, "wetland_plant"),
    TRule(<<"bog", "peat", "mire">>, "bog_plant"),
    TRule(<<"arctic", "tundra", "polar">>, "arctic"),
    TRule(<<"alpine", "subalpine", "montane", "high elevation", "high-elevation">>, "alpine"),
    TRule(<<"boreal", "taiga">>, "boreal"),
    TRule(<<"cold hardy", "cold-hardy", "frost", "freeze", "freezing", "snow", "subzero">>,
          "cold_hardy") >>

PRIMARY_KEYS ==
    << "arctic", "alpine", "temperate_cold", "temperate", "mediterranean", "desert",
       "grassland", "savanna", "subtropical", "tropical", "rainforest", "wetland",
       "bog", "aquatic", "coastal", "houseplant" >>

\* the scoring statements after the houseplant rules, in program order:
\* kind "kw" tests the corpus for the words, kind "trait" tests the trait list
\* mutant: the cold rules score the table-only bucket boreal
SRule_BorealKey(kind, words, key, delta, why) ==
    [kind |-> kind, words |-> words,
     key |-> IF key = "temperate_cold" THEN "boreal" ELSE key,
     delta |-> delta, why |-> why]

SRule(kind, words, key, delta, why) ==
    [kind |-> kind, words |-> words, key |-> key, delta |-> delta, why |-> why]

SCORE_RULES == <<
    SRule("kw", <<"arctic", "tundra", "polar", "polar desert">>,
          "arctic", 12, "arctic/tundra keywords"),
    SRule("kw", <<"alpine", "subalpine", "montane", "mountain", "high elevation",
                  "high-elevation">>,
          "alpine", 10, "alpine/mountain keywords"),
    SRule("kw", <<"boreal", "taiga">>, "temperate_cold", 8, "boreal/taiga keywords"),
    SRule("kw", <<"frost", "freeze", "freezing", "snow", "ice", "subzero">>,
          "temperate_cold", 5, "cold conditions keywords"),
    SRule("kw", <<"mediterranean", "mediterranea", "maquis", "garrigue">>,
          "mediterranean", 10, "mediterranean biome keywords"),
    SRule("kw", <<"spain", "iberian", "andalusia", "portugal", "balearic">>,
          "mediterranean", 6, "iberian region keywords"),
    SRule("kw", <<"desert">>, "desert", 10, "desert keyword"),
    SRule("kw", <<"arid", "semi-arid", "semiarid", "xeric">>,
          "desert", 5, "arid/xeric keywords"),
    SRule("trait", <<"cactus", "succulent", "xerophyte", "drought_tolerant">>,
          "desert", 4, "dry traits"),
    SRule("kw", <<"aquatic", "water plant", "hydrophyte">>,
          "aquatic", 10, "aquatic keywords"),
    SRule("kw", <<"bog", "peat", "mire">>, "bog", 9, "bog keywords"),
    SRule("kw", <<"wetland", "marsh", "swamp", "fen", "riparian">>,
          "wetland", 8, "wetland keywords"),
    SRule("trait", <<"hydrophyte">>, "aquatic", 2, "hydrophyte trait"),
    SRule("trait", <<"bog_plant">>, "bog", 2, "bog trait"),
    SRule("trait", <<"wetland_plant">>, "wetland", 2, "wetland trait"),
    SRule("kw", <<"rainforest">>, "rainforest", 9, "rainforest keyword"),
    SRule("kw", <<"tropical", "tropics">>, "tropical", 6, "tropical keyword"),
    SRule("kw", <<"subtropical">>, "subtropical", 5, "subtropical keyword"),
    SRule("kw", <<"humid", "high humidity">>, "rainforest", 2, "humid hint"),
    SRule("kw", <<"coastal", "shore", "dune", "seashore", "salt spray", "saline",
                  "littoral">>,
          "coastal", 7, "coastal keywords"),
    SRule("kw", <<"grassland", "prairie", "steppe", "meadow">>,
          "grassland", 7, "grassland keywords"),
    SRule("kw", <<"savanna", "savannah">>, "savanna", 7, "savanna keywords"),
    SRule("kw", <<"temperate">>, "temperate", 4, "temperate keyword"),
    SRule("kw", <<"canada", "alberta", "saskatchewan", "british columbia",
                  "rocky mountains">>,
          "temperate_cold", 4, "canada/rockies region") >>

\* the condition of one scoring statement
RuleFires(rule, text, ts) ==
    IF rule.kind = "kw"
    THEN _has_any(text, rule.words)
    ELSE \E i \in 1..Len(rule.words) : InList(rule.words[i], ts)

\* utils/text_utils.py
RECURSIVE DedupLoop(_, _, _)
DedupLoop(items, seen, out) ==
    IF Len(items) = 0 THEN out
    ELSE LET x == Head(items)
         IN  IF x # "" /\ x \notin seen
             THEN DedupLoop(Tail(items), seen \cup {x}, Append(out, x))
             ELSE DedupLoop(Tail(items), seen, out)

dedup_preserve_order(items) == DedupLoop(items, {}, <<>>)

\* HARD RULE: houseplant only if explicit; on the pair <<scores, reasoning>>
\* mutant: the default penalty is applied without a log entry
HouseplantStep_Silent(sr, explicit) ==
    IF explicit
    THEN _add_score(sr, "houseplant", 10, "explicit indoor wording")
    ELSE << DictSet(sr[1], "houseplant", DictGet(sr[1], "houseplant", 0) - 6), sr[2] >>

HouseplantStep(sr, explicit) ==
    IF explicit
    THEN _add_score(sr, "houseplant", 10, "explicit indoor wording")
    ELSE << DictSet(sr[1], "houseplant", DictGet(sr[1], "houseplant", 0) - 6),
            Append(sr[2], "primary -6 houseplant (not explicitly indoor)") >>

\* mutant: the wild-context penalty outweighs the explicit-indoor bonus
WildStep_Heavy(sr, text) ==
    IF _is_wild_context(text)
    THEN << DictSet(sr[1], "houseplant", DictGet(sr[1], "houseplant", 0) - 12),
            Append(sr[2], "primary -6 houseplant (wild/native context)") >>
    ELSE sr

WildStep(sr, text) ==
    IF _is_wild_context(text)
    THEN << DictSet(sr[1], "houseplant", DictGet(sr[1], "houseplant", 0) - 6),
            Append(sr[2], "primary -6 houseplant (wild/native context)") >>
    ELSE sr

\* mutant: the fallback is houseplant whatever the wording
ChooseBest_HouseplantDefault(sc, log, explicit) ==
    LET best == DictArgMax(sc)
    IN  IF DictGet(sc, best, 0) <= 0
        THEN << "houseplant",
                Append(log, "primary fallback: houseplant (no strong signals)") >>
        ELSE << best, log >>

\* mutant: the fallback is taken only below zero
ChooseBest_BelowZero(sc, log, explicit) ==
    LET best == DictArgMax(sc)
    IN  IF DictGet(sc, best, 0) < 0
        THEN LET fb == IF explicit THEN "houseplant" ELSE "temperate"
             IN  << fb, Append(log, "primary fallback: " \o fb \o " (no strong signals)") >>
        ELSE << best, log >>

\* "Choose best": <<primary, reasoning>> from the final scores
ChooseBest(sc, log, explicit) ==
    LET best == DictArgMax(sc)
    IN  IF DictGet(sc, best, 0) <= 0
        THEN LET fb == IF explicit THEN "houseplant" ELSE "temperate"
             IN  << fb, Append(log, "primary fallback: " \o fb \o " (no strong signals)") >>
        ELSE << best, log >>

(***************************************************************************)
(* Inputs                                                                  *)
(***************************************************************************)
\* text fragments an encyclopedia summary is made of (mixed case, as delivered)
PHRASES == {
    "Native to Sumatra, tropical rainforest understory",
    "cactaceae desert arid xeric",
    "Aquatic plant found in ponds and marshes, hydrophyte",
    "popular Houseplant",
    "often grown indoors as a potted plant",
    "subtropical humid savanna",
    "mountain meadow",
    "Mediterranean montane maquis of Spain",
    "coastal steppe",
    "succulent xerophytic shrub",
    "peat bog of the Arctic tundra with snow",
    "boreal taiga of Canada, temperate",
    "garden ornamental",
    "subtropical climate" }

HintInputs == { StrJoin(f) : f \in BoundedSeq(PHRASES, MaxFrags) }

\* wd.get("labels", []) as the knowledge-base collaborator returns it
LabelInputs == { <<>>, <<"Flowering Plant", "crassulaceae">> }

\* arguments of the direct calls of the range functions
CategoryInputs ==
    { PRIMARY_MOISTURE_BASE[i].k : i \in 1..Len(PRIMARY_MOISTURE_BASE) }
        \cup { "unknown_biome", "" }

TraitInputs ==
    { TRAIT_MODIFIERS[i].k : i \in 1..Len(TRAIT_MODIFIERS) }
        \cup { CLIMATE_TRAIT_MODS[i].k : i \in 1..Len(CLIMATE_TRAIT_MODS) }
        \cup { "woody" }

(***************************************************************************)
(* identify_plant_endpoint: infer_primary_and_traits, then                 *)
(* compute_moisture, then compute_climate                                  *)
(***************************************************************************)
\* the parts of the state a specification does not use stay idle
BandIdle == band_dim = "" /\ band_raw = <<>> /\ band_out = <<>>

ConfigIdle == device_config = <<>> /\ calls = <<>> /\ now = 0

\* the pipeline variables of a specification that does not run the pipeline
PipelineIdle ==
    /\ pc = "idle"
    /\ labels = <<>>
    /\ wiki_hint = ""
    /\ combined = ""
    /\ traits = <<>>
    /\ reasoning = <<>>
    /\ scores = <<>>
    /\ explicit_houseplant = FALSE
    /\ ri = 0
    /\ primary = ""
    /\ moisture = <<>>
    /\ climate = <<>>

pipeline_vars == <<pc, labels, wiki_hint, combined, traits, reasoning, scores,
                   explicit_houseplant, ri, primary, moisture, climate>>

Init ==
    /\ BandIdle
    /\ ConfigIdle
    /\ pc = "call"
    /\ labels \in LabelInputs
    /\ wiki_hint \in HintInputs
    /\ combined = ""
    /\ traits = <<>>
    /\ reasoning = <<>>
    /\ scores = <<>>
    /\ explicit_houseplant = FALSE
    /\ ri = 0
    /\ primary = ""
    /\ moisture = <<>>
    /\ climate = <<>>

\* labels_text, wiki_text, combined
Normalize ==
    /\ pc = "call"
    /\ LET labels_text == StrLower(StrJoin(labels))
           wiki_text   == StrLower(wiki_hint)
       IN  combined' = StrStrip(labels_text \o " " \o wiki_text)
    /\ pc' = "traits"
    /\ ri' = 1
    /\ UNCHANGED <<labels, wiki_hint, traits, reasoning, scores,
                   explicit_houseplant, primary, moisture, climate>>
    /\ UNCHANGED <<band_vars, config_vars>>

\* one "if _has_any(...): _add_trait(...)" statement
TraitStep ==
    /\ pc = "traits"
    /\ LET rule == TRAIT_RULES[ri]
           tr   == IF _has_any(combined, rule.words)
                   THEN _add_trait(<<traits, reasoning>>, rule.name, "keyword")
                   ELSE <<traits, reasoning>>
       IN  /\ traits' = tr[1]
           /\ reasoning' = tr[2]
    /\ IF ri < Len(TRAIT_RULES)
       THEN /\ ri' = ri + 1
            /\ pc' = pc
            /\ scores' = scores
       ELSE /\ ri' = 0
            /\ pc' = "houseplant"
            /\ scores' = [i \in 1..Len(PRIMARY_KEYS) |-> It(PRIMARY_KEYS[i], 0)]
    /\ UNCHANGED <<labels, wiki_hint, combined, explicit_houseplant, primary,
                   moisture, climate>>
    /\ UNCHANGED <<band_vars, config_vars>>

HouseplantRule ==
    /\ pc = "houseplant"
    /\ explicit_houseplant' = _is_explicit_indoor(combined)
    /\ LET sr == HouseplantStep(<<scores, reasoning>>, explicit_houseplant')
       IN  /\ scores' = sr[1]
           /\ reasoning' = sr[2]
    /\ pc' = "wild"
    /\ UNCHANGED <<labels, wiki_hint, combined, traits, ri, primary, moisture, climate>>
    /\ UNCHANGED <<band_vars, config_vars>>

WildRule ==
    /\ pc = "wild"
    /\ LET sr == WildStep(<<scores, reasoning>>, combined)
       IN  /\ scores' = sr[1]
           /\ reasoning' = sr[2]
    /\ pc' = "score"
    /\ ri' = 1
    /\ UNCHANGED <<labels, wiki_hint, combined, traits, explicit_houseplant, primary,
                   moisture, climate>>
    /\ UNCHANGED <<band_vars, config_vars>>

\* one "if ...: _add_score(...)" statement
ScoreStep ==
    /\ pc = "score"
    /\ LET rule == SCORE_RULES[ri]
           sr   == IF RuleFires(rule, combined, traits)
                   THEN _add_score(<<scores, reasoning>>, rule.key, rule.delta, rule.why)
                   ELSE <<scores, reasoning>>
       IN  /\ scores' = sr[1]
           /\ reasoning' = sr[2]
    /\ IF ri < Len(SCORE_RULES)
       THEN ri' = ri + 1 /\ pc' = pc
       ELSE ri' = 0 /\ pc' = "choose"
    /\ UNCHANGED <<labels, wiki_hint, combined, traits, explicit_houseplant, primary,
                   moisture, climate>>
    /\ UNCHANGED <<band_vars, config_vars>>

\* choose best, fall back, dedup the traits, return
Choose ==
    /\ pc = "choose"
    /\ LET r == ChooseBest(scores, reasoning, explicit_houseplant)
       IN  /\ primary' = r[1]
           /\ reasoning' = r[2]
    /\ traits' = dedup_preserve_order(traits)
    /\ pc' = "inferred"
    /\ UNCHANGED <<labels, wiki_hint, combined, scores, explicit_houseplant, ri,
                   moisture, climate>>
    /\ UNCHANGED <<band_vars, config_vars>>

ComputeMoisture ==
    /\ pc = "inferred"
    /\ moisture' = compute_moisture(primary, traits)
    /\ pc' = "moist"
    /\ UNCHANGED <<labels, wiki_hint, combined, traits, reasoning, scores,
                   explicit_houseplant, ri, primary, climate>>
    /\ UNCHANGED <<band_vars, config_vars>>

ComputeClimate ==
    /\ pc = "moist"
    /\ climate' = compute_climate(primary, traits)
    /\ pc' = "done"
    /\ UNCHANGED <<labels, wiki_hint, combined, traits, reasoning, scores,
                   explicit_houseplant, ri, primary, moisture>>
    /\ UNCHANGED <<band_vars, config_vars>>

Next ==
    \/ Normalize
    \/ TraitStep
    \/ HouseplantRule
    \/ WildRule
    \/ ScoreStep
    \/ Choose
    \/ ComputeMoisture
    \/ ComputeClimate

Spec == Init /\ [][Next]_vars

(***************************************************************************)
(* The range functions called directly, on any category and trait list     *)
(***************************************************************************)
InitRange ==
    /\ BandIdle
    /\ ConfigIdle
    /\ pc = "inferred"
    /\ labels = <<>>
    /\ wiki_hint = ""
    /\ combined = ""
    /\ traits \in BoundedSeq(TraitInputs, MaxTraits)
    /\ reasoning = <<>>
    /\ scores = <<>>
    /\ explicit_houseplant = FALSE
    /\ ri = 0
    /\ primary \in CategoryInputs
    /\ moisture = <<>>
    /\ climate = <<>>

NextRange ==
    \/ ComputeMoisture
    \/ ComputeClimate

SpecRange == InitRange /\ [][NextRange]_vars

(***************************************************************************)
(* Vocabulary of the properties                                            *)
(***************************************************************************)
(***************************************************************************)
(* routers/telemetry.py: device_config_set                                 *)
(***************************************************************************)
\* a request body for DeviceConfig; an absent temperature or humidity triple
\* takes the defaults of the fields
DeviceConfig(dev, m, t, h) ==
    LET tt == IF t = <<>> THEN <<18, 28, 23>> ELSE t
        hh == IF h = <<>> THEN <<40, 70, 55>> ELSE h
    IN  [device_id |-> dev,
         moisture_min |-> m[1], moisture_max |-> m[2], moisture_target |-> m[3],
         temp_min |-> tt[1], temp_max |-> tt[2], temp_target |-> tt[3],
         humidity_min |-> hh[1], humidity_max |-> hh[2], humidity_target |-> hh[3]]

\* the Field(...) constraints of DeviceConfig, checked before the handler runs
FieldsOk(p) ==
    /\ Len(p.device_id) >= 1
    /\ \A x \in {p.moisture_min, p.moisture_max, p.moisture_target} : x >= 0 /\ x <= 100
    /\ \A x \in {p.temp_min, p.temp_max, p.temp_target} : x >= -50 /\ x <= 150
    /\ \A x \in {p.humidity_min, p.humidity_max, p.humidity_target} : x >= 0 /\ x <= 100

\* mutant: the humidity target is not checked
OrderingError_NoHumidityTarget(p) ==
    IF p.moisture_max < p.moisture_min
    THEN "moisture_max must be >= moisture_min"
    ELSE IF p.moisture_target < p.moisture_min \/ p.moisture_target > p.moisture_max
    THEN "moisture_target must be within [moisture_min, moisture_max]"
    ELSE IF p.temp_max < p.temp_min
    THEN "temp_max must be >= temp_min"
    ELSE IF p.temp_target < p.temp_min \/ p.temp_target > p.temp_max
    THEN "temp_target must be within [temp_min, temp_max]"
    ELSE IF p.humidity_max < p.humidity_min
    THEN "humidity_max must be >= humidity_min"
    ELSE ""

\* "Validate ordering": the detail of the HTTPException raised, "" if none
OrderingError(p) ==
    IF p.moisture_max < p.moisture_min
    THEN "moisture_max must be >= moisture_min"
    ELSE IF p.moisture_target < p.moisture_min \/ p.moisture_target > p.moisture_max
    THEN "moisture_target must be within [moisture_min, moisture_max]"
    ELSE IF p.temp_max < p.temp_min
    THEN "temp_max must be >= temp_min"
    ELSE IF p.temp_target < p.temp_min \/ p.temp_target > p.temp_max
    THEN "temp_target must be within [temp_min, temp_max]"
    ELSE IF p.humidity_max < p.humidity_min
    THEN "humidity_max must be >= humidity_min"
    ELSE IF p.humidity_target < p.humidity_min \/ p.humidity_target > p.humidity_max
    THEN "humidity_target must be within [humidity_min, humidity_max]"
    ELSE ""

\* data = payload.model_dump(); data["ts"] = now
WithTs(p, ts) == [x \in (DOMAIN p) \cup {"ts"} |-> IF x = "ts" THEN ts ELSE p[x]]

DeviceIds == {"d1", "d2"}

\* request bodies: valid ones (defaults, a point band, a target on the edge)
\* and, for every ordering check of the handler, one that fails it alone;
\* one body with a field out of its range and one with an empty device_id
ConfigInputs ==
    { DeviceConfig(d, b[1], b[2], b[3]) :
        d \in DeviceIds,
        b \in { << <<30, 60, 45>>, <<>>, <<>> >>,
                << <<20, 20, 20>>, <<-5, 10, 0>>, <<50, 90, 90>> >>,
                << <<60, 30, 45>>, <<>>, <<>> >>,
                << <<30, 60, 10>>, <<>>, <<>> >>,
                << <<30, 60, 45>>, <<28, 18, 23>>, <<>> >>,
                << <<30, 60, 45>>, <<18, 28, 30>>, <<>> >>,
                << <<30, 60, 45>>, <<>>, <<70, 40, 55>> >>,
                << <<30, 60, 45>>, <<>>, <<40, 70, 39>> >>,
                << <<30, 101, 45>>, <<>>, <<>> >> } }
    \cup { DeviceConfig("", <<30, 60, 45>>, <<>>, <<>>) }

NoCall == [st |-> "none", payload |-> <<>>, data |-> <<>>, status |-> 0, detail |-> ""]

InitConfig ==
    /\ PipelineIdle
    /\ BandIdle
    /\ device_config = <<>>
    /\ calls = [c \in 1..MaxCalls |-> NoCall]
    /\ now = 0

\* a request arrives: the body is validated against the fields (422), the
\* handler checks the orderings (400), reads the clock and builds data
ConfigSetCheck(c, p) ==
    /\ calls[c].st = "none"
    /\ IF ~FieldsOk(p)
       THEN /\ calls' = [calls EXCEPT ![c] = [st |-> "rejected", payload |-> p,
                             data |-> <<>>, status |-> 422, detail |-> "validation error"]]
            /\ now' = now
       ELSE IF OrderingError(p) # ""
       THEN /\ calls' = [calls EXCEPT ![c] = [st |-> "rejected", payload |-> p,
                             data |-> <<>>, status |-> 400, detail |-> OrderingError(p)]]
            /\ now' = now
       ELSE /\ calls' = [calls EXCEPT ![c] = [st |-> "checked", payload |-> p,
                             data |-> WithTs(p, now), status |-> 0, detail |-> ""]]
            /\ now' \in {now, now + 1}
    /\ UNCHANGED <<device_config, pipeline_vars, band_vars>>

\* with _LOCK: _DEVICE_CONFIG[payload.device_id] = data; return success
ConfigSetStore(c) ==
    /\ calls[c].st = "checked"
    /\ device_config' = DictSet(device_config, calls[c].payload.device_id, calls[c].data)
    /\ calls' = [calls EXCEPT ![c].st = "stored", ![c].status = 200]
    /\ UNCHANGED <<now, pipeline_vars, band_vars>>

device_config_set ==
    \/ \E c \in 1..MaxCalls : \E p \in ConfigInputs : ConfigSetCheck(c, p)
    \/ \E c \in 1..MaxCalls : ConfigSetStore(c)

NextConfig == device_config_set

SpecConfig == InitConfig /\ [][NextConfig]_vars

\* The band statements of the two range functions on any band that the
\* modifier loops can hand them: a dimension and its (min, max) before the
\* clamp, drawn from the domain of the dimension widened by Margin.
Domain(dim) ==
    IF dim = "moisture" THEN <<MOIST_LO, MOIST_HI>>
    ELSE IF dim = "temperature" THEN <<TEMP_LO, TEMP_HI>>
    ELSE <<HUM_LO, HUM_HI>>

RawBands(dim) ==
    LET r == (Domain(dim)[1] - Margin)..(Domain(dim)[2] + Margin)
    IN  r \X r

InitBand ==
    /\ PipelineIdle
    /\ ConfigIdle
    /\ band_dim \in {"moisture", "temperature", "humidity"}
    /\ band_raw \in RawBands(band_dim)
    /\ band_out = <<>>

\* compute_moisture: mn, mx clamped, then repaired
MoistureRepair ==
    /\ band_dim = "moisture" /\ band_out = <<>>
    /\ band_out' = MoistureBand(band_raw[1], band_raw[2])
    /\ UNCHANGED <<band_dim, band_raw, pipeline_vars, config_vars>>

\* compute_climate: tmin, tmax repaired, then clamped
TempRepair ==
    /\ band_dim = "temperature" /\ band_out = <<>>
    /\ band_out' = ClimateBand(band_raw[1], band_raw[2], TEMP_LO, TEMP_HI)
    /\ UNCHANGED <<band_dim, band_raw, pipeline_vars, config_vars>>

\* compute_climate: hmin, hmax repaired, then clamped
HumRepair ==
    /\ band_dim = "humidity" /\ band_out = <<>>
    /\ band_out' = ClimateBand(band_raw[1], band_raw[2], HUM_LO, HUM_HI)
    /\ UNCHANGED <<band_dim, band_raw, pipeline_vars, config_vars>>

NextBand ==
    \/ MoistureRepair
    \/ TempRepair
    \/ HumRepair

SpecBand == InitBand /\ [][NextBand]_vars

SeqSet(q) == { q[i] : i \in 1..Len(q) }

KeySet(d) == { d[i].k : i \in 1..Len(d) }

ScoreOf(key) == DictGet(scores, key, 0)

MaxScore == CHOOSE m \in { scores[i].v : i \in 1..Len(scores) } :
                \A i \in 1..Len(scores) : scores[i].v <= m

StrStartsWith(str, prefix) ==
    Len(str) >= Len(prefix) /\ SubSeq(str, 1, Len(prefix)) = prefix

HasFallbackEntry == \E i \in 1..Len(reasoning) :
                        StrStartsWith(reasoning[i], "primary fallback: ")

\* the scoring pass has started (the score map exists)
Scoring == pc \in {"houseplant", "wild", "score", "choose", "inferred", "moist", "done"}

\* infer_primary_and_traits has returned
Inferred == pc \in {"inferred", "moist", "done"}

\* the phrases the specification lists as explicit-indoor wording
HasIndoorPhrase(text) ==
    \E w \in {"houseplant", "indoor plant", "potted plant", "grown indoors"} :
        StrContains(text, w)

Triple(lo, tg, hi, dlo, dhi) ==
    /\ lo <= tg /\ tg <= hi
    /\ dlo <= lo /\ lo <= dhi
    /\ dlo <= hi /\ hi <= dhi

(***************************************************************************)
(* C1: whatever the category string and the trait list, compute_moisture   *)
(* and compute_climate return min <= target <= max in each dimension, with *)
(* min and max inside [0,100] (moisture, humidity) and [-30,60]            *)
(* (temperature).                                                          *)
(***************************************************************************)
C1_RangeValidity ==
    /\ pc \in {"moist", "done"} =>
          Triple(moisture.min, moisture.target, moisture.max, 0, 100)
    /\ pc = "done" =>
          /\ Triple(climate.tmin, climate.ttarget, climate.tmax, -30, 60)
          /\ Triple(climate.hmin, climate.htarget, climate.hmax, 0, 100)

\* modifiers that push the upper ends of moisture and humidity beyond 100
C1_Witness ==
    /\ pc = "done"
    /\ primary = "aquatic"
    /\ traits = <<"hydrophyte", "carnivorous">>
    /\ moisture.max = 100
    /\ climate.hmax = 100

\* the empty trait list on a category no table knows
C1_WitnessEmpty ==
    /\ pc = "done"
    /\ primary = "unknown_biome"
    /\ traits = <<>>
    /\ moisture.min = 35

(***************************************************************************)
(* C2: a corpus without explicit-indoor wording never gets houseplant as   *)
(* its primary category; the Sumatra corpus gets rainforest or tropical.   *)
(***************************************************************************)
C2_NoAccidentalHouseplant ==
    Inferred =>
        /\ ~HasIndoorPhrase(combined) => primary # "houseplant"
        /\ combined = "native to sumatra, tropical rainforest understory"
              => primary \in {"rainforest", "tropical"}

C2_Witness ==
    /\ Inferred
    /\ combined = "native to sumatra, tropical rainforest understory"
    /\ primary = "rainforest"
    /\ ScoreOf("houseplant") = -12

(***************************************************************************)
(* C3: the scorer falls back exactly when the maximal score is <= 0; the   *)
(* default is houseplant with explicit-indoor wording and temperate        *)
(* without, and the log ends with the fallback entry. A corpus that fires  *)
(* no rule and yields no trait takes the fallback.                         *)
(***************************************************************************)
C3_Fallback ==
    Inferred =>
        /\ HasFallbackEntry <=> MaxScore <= 0
        /\ MaxScore <= 0 =>
              /\ primary = IF HasIndoorPhrase(combined) THEN "houseplant" ELSE "temperate"
              /\ reasoning[Len(reasoning)] =
                     "primary fallback: " \o primary \o " (no strong signals)"
        /\ ( /\ traits = <<>>
             /\ ~HasIndoorPhrase(combined)
             /\ \A i \in 1..Len(SCORE_RULES) : ~RuleFires(SCORE_RULES[i], combined, traits) )
              => HasFallbackEntry /\ primary = "temperate"

C3_Witness ==
    /\ Inferred
    /\ combined = "garden ornamental"
    /\ traits = <<>>
    /\ MaxScore = 0
    /\ primary = "temperate"
    /\ HasFallbackEntry

(***************************************************************************)
(* C4: with a positive maximum, the primary category holds the maximal     *)
(* score and every category before it in the enumeration order holds       *)
(* strictly less: a tie goes to the first category of the enumeration.     *)
(***************************************************************************)
C4_FirstMaxWins ==
    (Inferred /\ MaxScore > 0) =>
        \E i \in 1..Len(PRIMARY_KEYS) :
            /\ PRIMARY_KEYS[i] = primary
            /\ ScoreOf(primary) = MaxScore
            /\ \A j \in 1..(i - 1) : ScoreOf(PRIMARY_KEYS[j]) < MaxScore

\* coastal is scored before grassland, ties with it at 7, and loses
C4_Witness ==
    /\ Inferred
    /\ MaxScore = 7
    /\ ScoreOf("grassland") = 7
    /\ ScoreOf("coastal") = 7
    /\ primary = "grassland"

(***************************************************************************)
(* C5: the primary category is always one of the 16 categories of the      *)
(* enumeration, and the keys of the score map are exactly the enumeration  *)
(* at every point of the scoring pass.                                     *)
(***************************************************************************)
C5_CategoryClosure ==
    /\ Scoring => DictKeys(scores) = PRIMARY_KEYS
    /\ Inferred => primary \in SeqSet(PRIMARY_KEYS)
    /\ Cardinality(SeqSet(PRIMARY_KEYS)) = 16

\* the empty corpus
C5_Witness ==
    /\ Inferred
    /\ combined = ""
    /\ primary = "temperate"
    /\ Len(scores) = 16

(***************************************************************************)
(* C6: the temperature and humidity targets are the midpoint of the final  *)
(* band rounded half-up, floor((min + max + 1) / 2).                       *)
(***************************************************************************)
C6_HalfUp ==
    pc = "done" =>
        /\ climate.ttarget = (climate.tmin + climate.tmax + 1) \div 2
        /\ climate.htarget = (climate.hmin + climate.hmax + 1) \div 2

C8_HouseplantTrait ==
    Inferred => (InList("houseplant", traits) <=> HasIndoorPhrase(combined))

(***************************************************************************)
(* C8, as amended: explicit-indoor wording is a flag of the scorer, not a  *)
(* trait. The trait list never holds houseplant; the flag is set exactly   *)
(* when the corpus contains an explicit-indoor phrase, and it then adds 10 *)
(* to the houseplant score, which is negative otherwise.                   *)
(***************************************************************************)
C8_IndoorFlag ==
    /\ ~InList("houseplant", traits)
    /\ pc \in {"wild", "score", "choose", "inferred", "moist", "done"} =>
          /\ explicit_houseplant <=> HasIndoorPhrase(combined)
          /\ HasIndoorPhrase(combined) => ScoreOf("houseplant") \in {4, 10}
          /\ ~HasIndoorPhrase(combined) => ScoreOf("houseplant") \in {-12, -6}

\* an explicit-indoor phrase other than the word houseplant itself
C8_Witness ==
    /\ Inferred
    /\ StrContains(combined, "grown indoors")
    /\ ~StrContains(combined, "houseplant")
    /\ explicit_houseplant
    /\ primary = "houseplant"
    /\ traits = <<>>

(***************************************************************************)
(* C9: for the corpus "cactaceae desert arid xeric" the trait list holds   *)
(* cactus and xerophyte, the category is desert, and the moisture target   *)
(* is strictly below the unmodified midpoint of the desert band.           *)
(***************************************************************************)
DesertCorpus == "cactaceae desert arid xeric"

C9_Scenario ==
    (pc = "done" /\ combined = DesertCorpus) =>
        /\ InList("cactus", traits)
        /\ InList("xerophyte", traits)
        /\ primary = "desert"
        /\ moisture.target < compute_moisture("desert", <<>>).target

(***************************************************************************)
(* C9, as amended: for that corpus the trait list is cactus and            *)
(* drought_tolerant, without xerophyte ("xeric" is a scoring keyword, not  *)
(* a keyword of the xerophyte trait); the category is desert and the       *)
(* moisture target, 9, is strictly below the unmodified midpoint of the    *)
(* desert band, 18.                                                        *)
(***************************************************************************)
C9_ScenarioAmended ==
    (pc = "done" /\ combined = DesertCorpus) =>
        /\ traits = <<"cactus", "drought_tolerant">>
        /\ primary = "desert"
        /\ ScoreOf("desert") = 19
        /\ moisture.target = 9
        /\ moisture.target < compute_moisture("desert", <<>>).target
        /\ compute_moisture("desert", <<>>).target = 18

C9_Witness ==
    /\ pc = "done"
    /\ combined = DesertCorpus
    /\ primary = "desert"
    /\ moisture.target = 9

(***************************************************************************)
(* C10: for the corpus "aquatic plant found in ponds and marshes,          *)
(* hydrophyte" the trait list holds hydrophyte, the category is the higher *)
(* scored of aquatic and wetland, and the humidity band has min >= 60.     *)
(***************************************************************************)
PondCorpus == "aquatic plant found in ponds and marshes, hydrophyte"

C10_Scenario ==
    (pc = "done" /\ combined = PondCorpus) =>
        /\ InList("hydrophyte", traits)
        /\ primary \in {"aquatic", "wetland"}
        /\ ScoreOf(primary) >= ScoreOf("aquatic")
        /\ ScoreOf(primary) >= ScoreOf("wetland")
        /\ climate.hmin >= 60

C10_Witness ==
    /\ pc = "done"
    /\ combined = PondCorpus
    /\ primary = "aquatic"
    /\ ScoreOf("aquatic") = 12
    /\ ScoreOf("wetland") = 10
    /\ climate.hmin = 73

(***************************************************************************)
(* C11: compute_moisture for category desert with the trait list [cactus]  *)
(* returns a min, a max and a target that are each strictly lower than the *)
(* value compute_moisture returns for desert with the empty trait list.    *)
(***************************************************************************)
C11_CactusDrier ==
    (pc \in {"moist", "done"} /\ primary = "desert" /\ traits = <<"cactus">>) =>
        LET bare == compute_moisture("desert", <<>>)
        IN  /\ moisture.min < bare.min
            /\ moisture.max < bare.max
            /\ moisture.target < bare.target

C11_Witness ==
    /\ pc = "done"
    /\ primary = "desert"
    /\ traits = <<"cactus">>
    /\ moisture.min = 5 /\ moisture.max = 20 /\ moisture.target = 12
    /\ compute_moisture("desert", <<>>).min = 10
    /\ compute_moisture("desert", <<>>).max = 25
    /\ compute_moisture("desert", <<>>).target = 18

(***************************************************************************)
(* C12: for every corpus the trait list of the extractor has no duplicate  *)
(* entry, holds a trait exactly when a keyword of the rule of that trait   *)
(* occurs in the corpus as a substring, and lists the traits in the order  *)
(* of the rules.  After every rule the list holds no duplicate, only       *)
(* traits of rules evaluated so far whose keyword occurs, in rule order;   *)
(* when the extractor is done and when the list is returned it holds every *)
(* trait whose keyword occurs.  The conditions fix the returned list as a  *)
(* function of the corpus, so that a second run on the same corpus gives   *)
(* the same list and no trait added by a rule is missing at the end.       *)
(***************************************************************************)
RulesDone == IF pc = "call" THEN 0
             ELSE IF pc = "traits" THEN ri - 1
             ELSE Len(TRAIT_RULES)

KeywordOccurs(r) ==
    \E w \in 1..Len(TRAIT_RULES[r].words) :
        StrContains(combined, TRAIT_RULES[r].words[w])

RuleOf(name) == CHOOSE r \in 1..Len(TRAIT_RULES) : TRAIT_RULES[r].name = name

C12_TraitList ==
    /\ \A i, j \in 1..Len(traits) : i # j => traits[i] # traits[j]
    /\ \A i \in 1..Len(traits) : \E r \in 1..Len(TRAIT_RULES) : TRAIT_RULES[r].name = traits[i]
    /\ \A i, j \in 1..Len(traits) : i < j => RuleOf(traits[i]) < RuleOf(traits[j])
    /\ \A i \in 1..Len(traits) :
           RuleOf(traits[i]) <= RulesDone /\ KeywordOccurs(RuleOf(traits[i]))
    /\ pc \in {"houseplant", "inferred"} =>
           \A r \in 1..Len(TRAIT_RULES) :
               KeywordOccurs(r) => InList(TRAIT_RULES[r].name, traits)

C12_Witness ==
    /\ Inferred
    /\ StrContains(combined, "peat") /\ StrContains(combined, "bog")
    /\ StrContains(combined, "tundra") /\ StrContains(combined, "arctic")
    /\ traits = <<"bog_plant", "arctic", "cold_hardy">>

(***************************************************************************)
(* C13: the delta a scoring rule adds to its category, read from the       *)
(* scores before and after the rule.                                       *)
(*   As claimed (C13_DeltaRanges): every trait-nudge rule adds between 1   *)
(* and 3 and every corpus-keyword rule adds between 3 and 12, so that the  *)
(* trait nudges are the smallest deltas of the table.                      *)
(*   As the code has it (C13_DeltaRangesAmended): every trait-nudge rule   *)
(* adds between 2 and 4 (the "dry traits" nudge adds 4), every corpus-     *)
(* keyword rule adds between 2 and 12 (the "humid hint" keyword adds 2),   *)
(* and no trait nudge is as large as a strong biome keyword delta (8 or    *)
(* more).                                                                  *)
(***************************************************************************)
RuleAdds(lo_trait, hi_trait, lo_kw, hi_kw) ==
    (pc = "score" /\ scores' # scores) =>
        LET rule == SCORE_RULES[ri]
            d    == DictGet(scores', rule.key, 0) - DictGet(scores, rule.key, 0)
        IN  /\ rule.kind = "trait" => d \in lo_trait..hi_trait
            /\ rule.kind = "kw" => d \in lo_kw..hi_kw
            /\ \A i \in 1..Len(scores) :
                   scores[i].k # rule.key => scores'[i] = scores[i]

C13_DeltaRanges == [][RuleAdds(1, 3, 3, 12)]_vars

C13_DeltaRangesAmended ==
    [][ /\ RuleAdds(2, 4, 2, 12)
        /\ (pc = "score" /\ scores' # scores /\ SCORE_RULES[ri].kind = "trait") =>
               DictGet(scores', SCORE_RULES[ri].key, 0)
                   - DictGet(scores, SCORE_RULES[ri].key, 0) < 8 ]_vars

\* the "dry traits" nudge (4) and the "humid hint" keyword (2) have both acted
C13_Witness ==
    /\ pc = "choose"
    /\ InList("succulent", traits)
    /\ ScoreOf("desert") = 4
    /\ StrContains(combined, "humid")
    /\ ScoreOf("rainforest") = 2

(***************************************************************************)
(* C14: for every dimension and every integer pair (min, max) handed to    *)
(* the band statements, the final band equals the result of the order      *)
(* "clamp both to the domain bounds, then if max < min set max = min":     *)
(* min' is the clamped min and max' is the larger of the clamped max and   *)
(* min', for compute_moisture (clamp, then repair) and for compute_climate *)
(* (repair, then clamp) alike; the band is never inverted and never        *)
(* swapped.                                                                *)
(***************************************************************************)
ClampTo(x, lo, hi) == IF x < lo THEN lo ELSE IF x > hi THEN hi ELSE x

C14_RepairOrder ==
    band_out # <<>> =>
        LET lo  == Domain(band_dim)[1]
            hi  == Domain(band_dim)[2]
            cmn == ClampTo(band_raw[1], lo, hi)
            cmx == ClampTo(band_raw[2], lo, hi)
        IN  /\ band_out[1] = cmn
            /\ band_out[2] = (IF cmx < cmn THEN cmn ELSE cmx)
            /\ band_out[1] <= band_out[2]
            /\ cmx < cmn => band_out # <<cmx, cmn>>

\* an inverted band inside the domain, repaired before the clamp, collapses
\* to the point min
C14_Witness ==
    /\ band_dim = "temperature"
    /\ band_raw = <<30, 20>>
    /\ band_out = <<30, 30>>

\* an inverted band whose ends are both out of the domain, clamped first
C14_WitnessMoisture ==
    /\ band_dim = "moisture"
    /\ band_raw = <<102, -2>>
    /\ band_out = <<100, 100>>

(***************************************************************************)
(* C15: for every category string that is not a key of the base table of a *)
(* dimension, and every trait list, compute_moisture and compute_climate   *)
(* return a result, and it is exactly the result for the default category  *)
(* houseplant with the same trait list, in all three dimensions.           *)
(***************************************************************************)
C15_DefaultCategory ==
    pc = "done" =>
        LET dm == compute_moisture("houseplant", traits)
            dc == compute_climate("houseplant", traits)
        IN  /\ primary \notin KeySet(PRIMARY_MOISTURE_BASE) =>
                   /\ DOMAIN moisture = {"min", "max", "target", "applied"}
                   /\ moisture = dm
            /\ primary \notin KeySet(PRIMARY_TEMP_BASE_C) =>
                   /\ DOMAIN climate = {"tmin", "tmax", "ttarget", "hmin", "hmax",
                                        "htarget", "applied"}
                   /\ <<climate.tmin, climate.tmax, climate.ttarget>>
                          = <<dc.tmin, dc.tmax, dc.ttarget>>
            /\ primary \notin KeySet(PRIMARY_HUM_BASE) =>
                   /\ <<climate.hmin, climate.hmax, climate.htarget>>
                          = <<dc.hmin, dc.hmax, dc.htarget>>
                   /\ climate.applied = dc.applied

C15_Witness ==
    /\ pc = "done"
    /\ primary = "unknown_biome"
    /\ traits = <<"cactus", "hydrophyte">>
    /\ primary \notin KeySet(PRIMARY_MOISTURE_BASE) \cup KeySet(PRIMARY_TEMP_BASE_C)
                          \cup KeySet(PRIMARY_HUM_BASE)
    /\ moisture = compute_moisture("houseplant", <<"cactus", "hydrophyte">>)
    /\ climate = compute_climate("houseplant", <<"cactus", "hydrophyte">>)
    /\ moisture.min = 36 /\ moisture.max = 56

(***************************************************************************)
(* C16: the shape of the reasoning log.                                    *)
(*   As claimed (C16_LogEndsWithDecision): the returned log records, in    *)
(* order, one entry for every trait added, then the entries of the score   *)
(* adjustments, and ends with an entry recording the final selection or    *)
(* fallback decision.                                                      *)
(*   As the code has it (C16_LogShape): at every point of the run the log  *)
(* is one entry for every trait added, in the order of the trait list,     *)
(* followed by score entries only, followed in the returned log by one     *)
(* fallback entry exactly when no category has a positive score (when a    *)
(* category wins with a positive score no selection entry is appended);    *)
(* and every step that changes a score appends exactly one entry, which    *)
(* names the sign and size of the delta, the category and a trigger        *)
(* description.                                                            *)
(***************************************************************************)
IsTraitEntry(e) == StrStartsWith(e, "trait: ")

IsScoreEntry(e) == StrStartsWith(e, "primary +") \/ StrStartsWith(e, "primary -")

IsDecisionEntry(e) == ~IsTraitEntry(e) /\ ~IsScoreEntry(e)

\* the entries before the last one: trait entries, then score entries
LogBody(n) ==
    /\ n >= Len(traits)
    /\ \A i \in 1..Len(traits) :
           reasoning[i] = "trait: " \o traits[i] \o " (keyword)"
    /\ \A i \in (Len(traits) + 1)..n : IsScoreEntry(reasoning[i])

C16_LogEndsWithDecision ==
    Inferred =>
        /\ Len(reasoning) > 0
        /\ IsDecisionEntry(reasoning[Len(reasoning)])
        /\ LogBody(Len(reasoning) - 1)

ScoreChangeLogged ==
    (pc \in {"houseplant", "wild", "score"} /\ scores' # scores) =>
        \E i \in 1..Len(scores) :
            LET key == scores[i].k
                d   == scores'[i].v - scores[i].v
            IN  /\ d # 0
                /\ \A j \in 1..Len(scores) : j # i => scores'[j] = scores[j]
                /\ Len(reasoning') = Len(reasoning) + 1
                /\ SubSeq(reasoning', 1, Len(reasoning)) = reasoning
                /\ StrStartsWith(reasoning'[Len(reasoning')],
                       "primary " \o (IF d > 0 THEN "+" ELSE "") \o ToString(d)
                           \o " " \o key \o " (")

LogShapeNow ==
    (pc = "traits" \/ Scoring) =>
        IF Inferred /\ MaxScore <= 0
        THEN /\ Len(reasoning) > 0
             /\ StrStartsWith(reasoning[Len(reasoning)], "primary fallback: ")
             /\ LogBody(Len(reasoning) - 1)
        ELSE LogBody(Len(reasoning))

C16_LogShape == []LogShapeNow /\ [][ScoreChangeLogged]_vars

\* a category has won with a positive score: traits, a penalty and a
\* contribution are logged, and the log ends with the last contribution
C16_Witness ==
    /\ Inferred
    /\ MaxScore > 0
    /\ primary = "arctic"
    /\ traits = <<"bog_plant", "arctic", "cold_hardy">>
    /\ reasoning[1] = "trait: bog_plant (keyword)"
    /\ reasoning[4] = "primary -6 houseplant (not explicitly indoor)"
    /\ reasoning[Len(reasoning)] = "primary +2 bog (bog trait)"
    /\ ~HasFallbackEntry

(***************************************************************************)
(* C17: keywords are matched as substrings and "subtropical" contains      *)
(* "tropical", so whenever the subtropical rule has fired (+5) the         *)
(* tropical rule has fired too (+6): in every scoring state the score of   *)
(* tropical exceeds the score of subtropical whenever the latter is        *)
(* positive, and subtropical is never returned as the primary category.    *)
(***************************************************************************)
C17_SubtropicalShadowed ==
    /\ Scoring =>
           /\ ScoreOf("subtropical") \in {0, 5}
           /\ ScoreOf("subtropical") > 0 =>
                  /\ StrContains(combined, "tropical")
                  /\ ScoreOf("tropical") = 6
                  /\ ScoreOf("tropical") > ScoreOf("subtropical")
    /\ Inferred => primary # "subtropical"

C17_Witness ==
    /\ Inferred
    /\ combined = "subtropical climate"
    /\ ScoreOf("subtropical") = 5
    /\ ScoreOf("tropical") = 6
    /\ primary = "tropical"

(***************************************************************************)
(* C18: at selection time the houseplant score is one of -12, -6, 4, 10    *)
(* and the score of every other category is >= 0; whenever an explicit-    *)
(* indoor phrase is in the corpus the houseplant score is at least 4, so   *)
(* the maximal score is positive and the fallback branch is not taken; and *)
(* every fallback result is temperate (the houseplant arm of the fallback  *)
(* is never taken).                                                        *)
(***************************************************************************)
C18_SelectionScores ==
    (pc = "choose" \/ Inferred) =>
        /\ ScoreOf("houseplant") \in {-12, -6, 4, 10}
        /\ \A i \in 1..Len(scores) : scores[i].k # "houseplant" => scores[i].v >= 0
        /\ explicit_houseplant = _is_explicit_indoor(combined)
        /\ explicit_houseplant =>
               /\ ScoreOf("houseplant") >= 4
               /\ MaxScore > 0
               /\ Inferred => ~HasFallbackEntry
        /\ (Inferred /\ HasFallbackEntry) =>
               /\ primary = "temperate"
               /\ reasoning[Len(reasoning)] = "primary fallback: temperate (no strong signals)"
        /\ \A i \in 1..Len(reasoning) :
               reasoning[i] # "primary fallback: houseplant (no strong signals)"

\* explicit indoor wording in a wild context: 10 - 6 = 4, and no fallback
C18_Witness ==
    /\ Inferred
    /\ explicit_houseplant
    /\ StrContains(combined, "houseplant")
    /\ _is_wild_context(combined)
    /\ ScoreOf("houseplant") = 4
    /\ MaxScore = 9
    /\ primary = "rainforest"
    /\ ~HasFallbackEntry

(***************************************************************************)
(* C19: after any sequence of device_config_set calls, interleaved in any  *)
(* way, every config stored in the device-config map satisfies             *)
(* min <= target <= max for moisture, for temperature and for humidity; a  *)
(* call whose payload violates one of these orderings is answered with a   *)
(* 400 error, and the step that rejects a call leaves the map unchanged,   *)
(* the config stored before for that device_id included; a rejected call   *)
(* changes nothing later either.                                           *)
(***************************************************************************)
Ordered(cfg) ==
    /\ cfg.moisture_min <= cfg.moisture_target /\ cfg.moisture_target <= cfg.moisture_max
    /\ cfg.temp_min <= cfg.temp_target /\ cfg.temp_target <= cfg.temp_max
    /\ cfg.humidity_min <= cfg.humidity_target /\ cfg.humidity_target <= cfg.humidity_max

StoredOrdered == \A i \in 1..Len(device_config) : Ordered(device_config[i].v)

RejectedAnswer ==
    \A c \in DOMAIN calls :
        (calls[c].st # "none" /\ FieldsOk(calls[c].payload) /\ ~Ordered(calls[c].payload)) =>
            /\ calls[c].st = "rejected"
            /\ calls[c].status = 400
            /\ calls[c].detail # ""

RejectKeepsMap ==
    /\ \A c \in DOMAIN calls :
           /\ (calls[c].st = "none" /\ calls'[c].st = "rejected") =>
                  device_config' = device_config
           /\ calls[c].st = "rejected" => calls'[c] = calls[c]
    /\ device_config' # device_config =>
           \E c \in DOMAIN calls :
               /\ calls[c].st = "checked" /\ calls'[c].st = "stored"
               /\ Ordered(calls[c].payload)
               /\ \A i \in 1..Len(device_config) :
                      device_config[i].k # calls[c].payload.device_id =>
                          DictGet(device_config', device_config[i].k, <<>>)
                              = device_config[i].v

C19_StoredConfigsOrdered ==
    [](StoredOrdered /\ RejectedAnswer) /\ [][RejectKeepsMap]_vars

\* a config is stored for d1, and a later call for d1 with the humidity
\* target below the band was rejected with 400: the stored config is kept
C19_Witness ==
    \E c1, c2 \in DOMAIN calls :
        /\ calls[c1].st = "stored"
        /\ calls[c1].payload.device_id = "d1"
        /\ calls[c2].st = "rejected"
        /\ calls[c2].status = 400
        /\ calls[c2].detail = "humidity_target must be within [humidity_min, humidity_max]"
        /\ calls[c2].payload.device_id = "d1"
        /\ Len(device_config) = 1
        /\ DictGet(device_config, "d1", <<>>) = calls[c1].data
        /\ Ordered(DictGet(device_config, "d1", <<>>))

====
